---- MODULE Spec2Model ----
(***************************************************************************)
(* Model of testconcurrent.py: the two-stage text segmenter                *)
(* (split_text_to_sentences), the per-row fragmenter (process_single_row), *)
(* the per-chunk worker pool (process_in_parallel) and the chunk loop      *)
(* (main).                                                                 *)
(*                                                                         *)
(* A Python str is a sequence of characters; a character is a one-element  *)
(* string, and a non-ASCII character is written by its code point:         *)
(*   "u3002" = ideographic full stop      "uFF01" = fullwidth '!'          *)
(*   "uFF1F" = fullwidth '?'              "uFF1B" = fullwidth ';'          *)
(*   "u2026" = horizontal ellipsis        "uFF0C" = fullwidth ','          *)
(*   "u3001" = ideographic comma          "uFF1A" = fullwidth ':'          *)
(*   "u3000" = ideographic space                                           *)
(* Python indices and offsets are 0-based, sequence positions 1-based.     *)
(***************************************************************************)
EXTENDS Integers, Sequences, FiniteSets, TLC

VARIABLES
  min_length, max_length,   \* configuration, shared by both specifications
  \* ---- process_single_row / split_text_to_sentences on one row ----
  pc,             \* position inside process_single_row
  original_text,  \* row_dict['text']
  sentences,      \* list built by the sentence scan
  si,             \* position of the `for sentence in sentences` loop
  fragments,      \* list returned by split_text_to_sentences
  last_window,    \* positions in fragments that are a fallback slicing's last window
  parts,          \* phrases of the current long sentence
  pi,             \* position of the `for part in parts` loop
  temp_part,      \* accumulator of the greedy merge
  merged_parts,   \* fragments emitted for the current long sentence
  row_results,    \* list returned by process_single_row
  \* ---- main / process_in_parallel ----
  mpc,            \* position inside main / process_in_parallel
  df,             \* the records read from the input file
  chunk_size, num_workers,
  chunk_id,       \* loop variable of main
  args_list,      \* argument tuples of the chunk being processed
  future,         \* state of each submitted task of the chunk
  nxt,            \* number of results the map iterator has yielded
  results,        \* list accumulated by process_in_parallel
  completed,      \* indices of the chunk's tasks in the order they ended
  output_files,   \* contents of the partial chunk files written so far
  final_df        \* the concatenated frame

rowvars == <<pc, original_text, sentences, si, fragments, last_window, parts,
             pi, temp_part, merged_parts, row_results>>
mainvars == <<mpc, df, chunk_size, num_workers, chunk_id, args_list, future,
              nxt, results, completed, output_files, final_df>>
vars == <<min_length, max_length, rowvars, mainvars>>

----------------------------------------------------------------------------
(* Bounds *)
MaxTextLen == 5      \* longest enumerated text
MaxLen == 3          \* largest enumerated min_length / max_length
MaxPoolLen == 2      \* largest min_length / max_length of the pipeline
MaxRecords == 3      \* most records in the input frame
MaxChunk == 2        \* largest chunk_size
MaxWorkers == 2      \* largest num_workers

----------------------------------------------------------------------------
(* Characters and strings *)
sentence_separators == {"u3002", "uFF01", "uFF1F", "uFF1B", "u2026"}
phrase_separators == {"uFF0C", "u3001", "uFF1A", "uFF1B"}
\* The characters c with c.isspace(), which str.strip() removes.
Whitespace ==
  {"\t", "\n", "u000B", "u000C", "\r", "u001C", "u001D", "u001E", "u001F", " ",
   "u0085", "u00A0", "u1680", "u2000", "u2001", "u2002", "u2003", "u2004",
   "u2005", "u2006", "u2007", "u2008", "u2009", "u200A", "u2028", "u2029",
   "u202F", "u205F", "u3000"}

\* A cell that is not a str (pandas gives float nan for an empty cell).
NaN == <<"nan">>
isinstance_str(v) == v # NaN

SetMin(S) == CHOOSE x \in S : \A y \in S : x <= y
SetMax(S) == CHOOSE x \in S : \A y \in S : x >= y

\* str.strip(): drop leading and trailing whitespace, keep inner whitespace.
strip(s) ==
  LET keep == {i \in 1..Len(s) : s[i] \notin Whitespace}
  IN IF keep = {} THEN <<>> ELSE SubSeq(s, SetMin(keep), SetMax(keep))

\* s[i:j] for 0 <= i <= j.
slice(s, i, j) == SubSeq(s, i + 1, IF j < Len(s) THEN j ELSE Len(s))

\* str.find(sub): lowest 0-based offset of sub in s, or -1.
find(s, sub) ==
  LET hits == {i \in 0..(Len(s) - Len(sub)) : SubSeq(s, i + 1, i + Len(sub)) = sub}
  IN IF hits = {} THEN -1 ELSE SetMin(hits)

RECURSIVE Flatten(_)
Flatten(ss) == IF ss = <<>> THEN <<>> ELSE Head(ss) \o Flatten(Tail(ss))

----------------------------------------------------------------------------
(* split_text_to_sentences *)

\* lines 16-20: the body of the sentence scan; st = [list, current].
sentence_char(st, char) ==
  LET cur == Append(st.current, char)
  IN IF char \in sentence_separators /\ strip(cur) # <<>>
     THEN [list |-> Append(st.list, strip(cur)), current |-> <<>>]
     ELSE [list |-> st.list, current |-> cur]

\* line 15: `for char in text` over text[lo..hi] from loop state st.  The
\* body is applied to the characters from left to right; the range is
\* halved, and the left half evaluated first (the test on left, which is
\* always true), so that the evaluation depth stays logarithmic.
RECURSIVE scan_sentences(_, _, _, _)
scan_sentences(st, text, lo, hi) ==
  IF lo > hi THEN st
  ELSE IF lo = hi THEN sentence_char(st, text[lo])
  ELSE LET mid == (lo + hi) \div 2
           left == scan_sentences(st, text, lo, mid)
       IN IF Len(left.list) >= 0
          THEN scan_sentences(left, text, mid + 1, hi)
          ELSE left

\* lines 14-22: the sentence scan and the flush of the trailing buffer.
split_sentences(text) ==
  LET st == scan_sentences([list |-> <<>>, current |-> <<>>], text, 1, Len(text))
  IN IF strip(st.current) # <<>>
     THEN Append(st.list, strip(st.current))
     ELSE st.list

\* lines 33-37: the body of the phrase scan; st = [list, current].
part_char(st, char, minl) ==
  LET cur == Append(st.current, char)
  IN IF char \in phrase_separators
        /\ strip(cur) # <<>> /\ Len(strip(cur)) >= minl
     THEN [list |-> Append(st.list, strip(cur)), current |-> <<>>]
     ELSE [list |-> st.list, current |-> cur]

\* line 32: `for char in sentence` over sentence[lo..hi], halved as above.
RECURSIVE scan_parts_range(_, _, _, _, _)
scan_parts_range(st, sentence, lo, hi, minl) ==
  IF lo > hi THEN st
  ELSE IF lo = hi THEN part_char(st, sentence[lo], minl)
  ELSE LET mid == (lo + hi) \div 2
           left == scan_parts_range(st, sentence, lo, mid, minl)
       IN IF Len(left.list) >= 0
          THEN scan_parts_range(left, sentence, mid + 1, hi, minl)
          ELSE left

\* lines 31-37: the phrase scan of one long sentence.
scan_parts(sentence, minl) ==
  scan_parts_range([list |-> <<>>, current |-> <<>>], sentence, 1, Len(sentence), minl)

\* lines 38-39: the flush of the trailing phrase.
parts_flush(st, minl) ==
  IF strip(st.current) # <<>> /\ Len(strip(st.current)) >= minl
  THEN Append(st.list, strip(st.current))
  ELSE st.list

split_parts_noflush(sentence, minl) == scan_parts(sentence, minl).list

split_parts_nomin(sentence, minl) == parts_flush(scan_parts(sentence, 0), 0)

\* lines 31-39
split_parts(sentence, minl) == parts_flush(scan_parts(sentence, minl), minl)

\* lines 43-48: one iteration of the greedy merge; acc = [merged, temp].
merge_step(acc, part, minl, maxl) ==
  IF Len(acc.temp \o part) <= maxl
  THEN [merged |-> acc.merged,
        temp |-> IF acc.temp # <<>> THEN acc.temp \o part ELSE part]
  ELSE [merged |-> IF acc.temp # <<>> /\ Len(acc.temp) >= minl
                   THEN Append(acc.merged, acc.temp)
                   ELSE acc.merged,
        temp |-> part]

\* lines 49-50: emit the remaining accumulator.
merge_flush(acc, minl) ==
  IF acc.temp # <<>> /\ Len(acc.temp) >= minl
  THEN Append(acc.merged, acc.temp)
  ELSE acc.merged

RECURSIVE merge_from(_, _, _, _, _)
merge_from(ps, i, acc, minl, maxl) ==
  IF i > Len(ps) THEN acc
  ELSE merge_from(ps, i + 1, merge_step(acc, ps[i], minl, maxl), minl, maxl)

\* lines 41-50: the whole greedy merge.
merge_parts(ps, minl, maxl) ==
  merge_flush(merge_from(ps, 1, [merged |-> <<>>, temp |-> <<>>], minl, maxl), minl)

\* The outcome of a call that ends with ValueError instead of a list.
ValueError == << <<"ValueError">> >>

\* lines 53-56: the windows from offset i on, for a step maxl >= 1.
RECURSIVE slices_from(_, _, _, _)
slices_from(sentence, i, minl, maxl) ==
  IF i >= Len(sentence) THEN <<>>
  ELSE LET fragment == slice(sentence, i, i + maxl)
       IN (IF Len(fragment) >= minl THEN <<fragment>> ELSE <<>>)
          \o slices_from(sentence, i + maxl, minl, maxl)

\* lines 53-56: fixed-width slicing.  range(0, len(sentence), max_length)
\* raises ValueError for a step of 0 and is empty for a negative step.
fallback_slices(sentence, minl, maxl) ==
  IF maxl = 0 THEN ValueError
  ELSE IF maxl < 0 THEN <<>>
  ELSE slices_from(sentence, 0, minl, maxl)

\* line 52: the condition of the fallback.
needs_fallback(merged, sentence, minl) == merged = <<>> /\ Len(sentence) >= minl

\* lines 31-57: the fragments of one sentence longer than max_length.
pack_sentence(sentence, minl, maxl) ==
  LET merged == merge_parts(split_parts(sentence, minl), minl, maxl)
  IN IF needs_fallback(merged, sentence, minl)
     THEN fallback_slices(sentence, minl, maxl)
     ELSE merged

too_short_mut(sentence, minl) == Len(sentence) <= minl
\* line 26
too_short(sentence, minl) == Len(sentence) < minl

\* lines 26-57: the fragments one sentence contributes.
sentence_fragments(sentence, minl, maxl) ==
  IF too_short(sentence, minl) THEN <<>>
  ELSE IF Len(sentence) <= maxl THEN <<sentence>>
  ELSE pack_sentence(sentence, minl, maxl)

\* lines 25-57: the loop over the sentences from position i on; a
\* ValueError of one sentence ends the call.
RECURSIVE fragments_from(_, _, _, _)
fragments_from(sents, i, minl, maxl) ==
  IF i > Len(sents) THEN <<>>
  ELSE LET f == sentence_fragments(sents[i], minl, maxl)
           rest == fragments_from(sents, i + 1, minl, maxl)
       IN IF f = ValueError THEN ValueError
          ELSE IF rest = ValueError THEN ValueError
          ELSE f \o rest

\* lines 11-58
split_text_to_sentences(text, minl, maxl) ==
  fragments_from(split_sentences(text), 1, minl, maxl)

----------------------------------------------------------------------------
(* process_single_row *)

\* line 64: row_dict.get('text', '')
get_text(row_dict) == IF "text" \in DOMAIN row_dict THEN row_dict.text ELSE <<>>

\* line 65: the early-return condition.
row_rejected(text, minl) == ~isinstance_str(text) \/ Len(strip(text)) < minl

\* lines 71-83: the record of one fragment.
fragment_record(idx, row_dict, text, frag_idx, fragment) ==
  LET start_pos == find(text, fragment)
      end_pos == start_pos + Len(fragment)
  IN [text |-> fragment,
      original_index |-> idx,
      fragment_index |-> frag_idx,
      original_text_length |-> Len(text),
      fragment_length |-> Len(fragment),
      source_type |-> "sentence_fragment",
      fragment_start |-> start_pos,
      fragment_end |-> end_pos] @@ row_dict

\* lines 69-85: one record per fragment, fragment_index from 0.
build_results(idx, row_dict, text, frags) ==
  [k \in 1..Len(frags) |-> fragment_record(idx, row_dict, text, k - 1, frags[k])]

\* line 68: the call of split_text_to_sentences ends with ValueError.
row_raises(args) ==
  /\ ~row_rejected(get_text(args[2]), args[3])
  /\ split_text_to_sentences(get_text(args[2]), args[3], args[4]) = ValueError

\* lines 62-85; args = <<idx, row_dict, min_length, max_length>>.
process_single_row(args) ==
  LET idx == args[1]
      row_dict == args[2]
      text == get_text(row_dict)
  IN IF row_rejected(text, args[3]) THEN <<>>
     ELSE IF row_raises(args) THEN ValueError
     ELSE build_results(idx, row_dict, text,
                        split_text_to_sentences(text, args[3], args[4]))

----------------------------------------------------------------------------
(* One call of process_single_row, the segmenter run statement by statement *)

Alphabet == {"a", " ", "u3002", "uFF0C", "uFF1B"}
Texts == UNION {[1..n -> Alphabet] : n \in 0..MaxTextLen}

\* Scenario C of the specification: 400 characters, no delimiter.
ScenarioC == [i \in 1..400 |-> "a"]

\* lines 11, 110-111: the default window.
default_min_length == 30
default_max_length == 250

\* The row handed to process_single_row in this specification, at index 0.
RowDict == [id |-> 0, text |-> original_text]

MainIdle ==
  /\ mpc = "idle" /\ df = <<>> /\ chunk_size = 1 /\ num_workers = 1
  /\ chunk_id = 0 /\ args_list = <<>> /\ future = <<>> /\ nxt = 0
  /\ results = <<>> /\ completed = <<>> /\ output_files = <<>> /\ final_df = <<>>

RowInit ==
  /\ \/ /\ original_text \in Texts \cup {NaN}
        /\ min_length \in 0..MaxLen
        /\ max_length \in 0..MaxLen
     \/ /\ original_text = ScenarioC
        /\ min_length = default_min_length
        /\ max_length = default_max_length
  /\ pc = "row"
  /\ sentences = <<>> /\ si = 1 /\ fragments = <<>> /\ last_window = {}
  /\ parts = <<>> /\ pi = 1 /\ temp_part = <<>> /\ merged_parts = <<>>
  /\ row_results = <<>>
  /\ MainIdle

\* lines 65-66: not a str, or too short after trimming.
ReturnEmpty ==
  /\ pc = "row"
  /\ row_rejected(get_text(RowDict), min_length)
  /\ row_results' = <<>>
  /\ pc' = "done"
  /\ UNCHANGED <<min_length, max_length, original_text, sentences, si, fragments,
                 last_window, parts, pi, temp_part, merged_parts, mainvars>>

\* lines 68, 12-24: enter split_text_to_sentences and scan the sentences.
SplitSentences ==
  /\ pc = "row"
  /\ ~row_rejected(get_text(RowDict), min_length)
  /\ sentences' = split_sentences(original_text)
  /\ si' = 1
  /\ fragments' = <<>>
  /\ pc' = "sentence"
  /\ UNCHANGED <<min_length, max_length, original_text, last_window, parts, pi,
                 temp_part, merged_parts, row_results, mainvars>>

\* lines 26-27
SkipShort ==
  /\ pc = "sentence" /\ si <= Len(sentences)
  /\ too_short(sentences[si], min_length)
  /\ si' = si + 1
  /\ UNCHANGED <<min_length, max_length, pc, original_text, sentences, fragments,
                 last_window, parts, pi, temp_part, merged_parts, row_results,
                 mainvars>>

\* lines 28-29
EmitSentence ==
  /\ pc = "sentence" /\ si <= Len(sentences)
  /\ ~too_short(sentences[si], min_length)
  /\ Len(sentences[si]) <= max_length
  /\ fragments' = Append(fragments, sentences[si])
  /\ si' = si + 1
  /\ UNCHANGED <<min_length, max_length, pc, original_text, sentences,
                 last_window, parts, pi, temp_part, merged_parts, row_results,
                 mainvars>>

\* lines 30-41: the phrase scan of a sentence longer than max_length.
SplitPhrases ==
  /\ pc = "sentence" /\ si <= Len(sentences)
  /\ ~too_short(sentences[si], min_length)
  /\ Len(sentences[si]) > max_length
  /\ parts' = split_parts(sentences[si], min_length)
  /\ pi' = 1
  /\ temp_part' = <<>>
  /\ merged_parts' = <<>>
  /\ pc' = "merge"
  /\ UNCHANGED <<min_length, max_length, original_text, sentences, si, fragments,
                 last_window, row_results, mainvars>>

\* lines 42-48: one iteration of `for part in parts`.
MergePart ==
  /\ pc = "merge" /\ pi <= Len(parts)
  /\ LET acc == merge_step([merged |-> merged_parts, temp |-> temp_part],
                           parts[pi], min_length, max_length)
     IN /\ merged_parts' = acc.merged
        /\ temp_part' = acc.temp
  /\ pi' = pi + 1
  /\ UNCHANGED <<min_length, max_length, pc, original_text, sentences, si,
                 fragments, last_window, parts, row_results, mainvars>>

\* lines 49-50: after the loop.
FlushMerge ==
  /\ pc = "merge" /\ pi > Len(parts)
  /\ merged_parts' = merge_flush([merged |-> merged_parts, temp |-> temp_part],
                                 min_length)
  /\ pc' = "flushed"
  /\ UNCHANGED <<min_length, max_length, original_text, sentences, si, fragments,
                 last_window, parts, pi, temp_part, row_results, mainvars>>

\* lines 52-57: the fallback slicing if nothing was emitted (it ends the
\* call with ValueError when max_length is 0), then extend.
ExtendFragments ==
  /\ pc = "flushed"
  /\ LET sentence == sentences[si]
         fb == needs_fallback(merged_parts, sentence, min_length)
         out == IF fb THEN fallback_slices(sentence, min_length, max_length)
                ELSE merged_parts
         lastStart == IF max_length > 0
                      THEN ((Len(sentence) - 1) \div max_length) * max_length
                      ELSE 0
     IN IF out = ValueError
        THEN /\ pc' = "value_error"
             /\ UNCHANGED <<fragments, last_window, merged_parts, si>>
        ELSE /\ fragments' = fragments \o out
             /\ last_window' =
                  IF fb /\ out # <<>> /\ Len(sentence) - lastStart >= min_length
                  THEN last_window \cup {Len(fragments) + Len(out)}
                  ELSE last_window
             /\ merged_parts' = out
             /\ si' = si + 1
             /\ pc' = "sentence"
  /\ UNCHANGED <<min_length, max_length, original_text, sentences, parts, pi,
                 temp_part, row_results, mainvars>>

\* lines 58, 69-85: return the fragments and build the records.
BuildResults ==
  /\ pc = "sentence" /\ si > Len(sentences)
  /\ row_results' = build_results(0, RowDict, original_text, fragments)
  /\ pc' = "done"
  /\ UNCHANGED <<min_length, max_length, original_text, sentences, si, fragments,
                 last_window, parts, pi, temp_part, merged_parts, mainvars>>

RowNext ==
  \/ ReturnEmpty \/ SplitSentences \/ SkipShort \/ EmitSentence
  \/ SplitPhrases \/ MergePart \/ FlushMerge \/ ExtendFragments \/ BuildResults

SpecRow == RowInit /\ [][RowNext]_vars

\* The statement-by-statement run returns what the functions return.
RowAgrees ==
  pc = "done" =>
    /\ row_results = process_single_row(<<0, RowDict, min_length, max_length>>)
    /\ ~row_rejected(original_text, min_length) =>
         fragments = split_text_to_sentences(original_text, min_length, max_length)

----------------------------------------------------------------------------
(* Properties of the segmenter and of process_single_row (SpecRow) *)

ValidConfig == 1 <= min_length /\ min_length <= max_length

InWindow(f) == min_length <= Len(f) /\ Len(f) <= max_length

\* C1: with 1 <= min_length <= max_length every returned fragment, other
\* than the last window of a fallback slicing, has a length between
\* min_length and max_length inclusive.
C1_FragmentsWithinWindow ==
  ValidConfig =>
    \A k \in (1..Len(fragments)) \ last_window : InWindow(fragments[k])

\* C5: every record built for a fragment carries offsets into the original
\* text that locate the fragment: 0 <= fragment_start, fragment_end =
\* fragment_start + fragment_length <= original_text_length, and the text
\* between the offsets is the fragment.
C5_OffsetsLocateFragment ==
  (pc = "done" /\ ValidConfig) =>
    \A k \in 1..Len(row_results) :
      LET r == row_results[k]
      IN /\ 0 <= r.fragment_start
         /\ r.fragment_end = r.fragment_start + r.fragment_length
         /\ r.fragment_end <= r.original_text_length
         /\ slice(original_text, r.fragment_start, r.fragment_end) = r.text

\* The windows of exactly w characters of s, the last possibly shorter,
\* keeping those of at least m characters.
Windows(s, w, m) ==
  LET n == (Len(s) + w - 1) \div w
      all == [k \in 1..n |->
                SubSeq(s, (k - 1) * w + 1, IF k * w < Len(s) THEN k * w ELSE Len(s))]
  IN SelectSeq(all, LAMBDA f : Len(f) >= m)

SingleSentenceNoPhraseDelimiter(text) ==
  /\ isinstance_str(text)
  /\ split_sentences(text) = <<text>>
  /\ \A i \in 1..Len(text) : text[i] \notin phrase_separators

\* C6: a text that is one sentence longer than max_length without phrase
\* delimiter is returned as its consecutive windows of max_length
\* characters of length >= min_length; the 400-character sentence with
\* min_length 30 and max_length 250 gives fragments of lengths 250 and 150.
C6_FallbackSlicing ==
  (pc = "done" /\ ValidConfig /\ SingleSentenceNoPhraseDelimiter(original_text)
     /\ Len(original_text) > max_length) =>
    /\ fragments = Windows(original_text, max_length, min_length)
    /\ (original_text = ScenarioC /\ min_length = default_min_length
          /\ max_length = default_max_length) =>
         [k \in 1..Len(fragments) |-> Len(fragments[k])] = <<250, 150>>

\* C7: a sentence of the sentence split whose length is at most max_length
\* adds exactly itself to the fragments when its length is at least
\* min_length (the bounds included) and adds nothing when it is shorter;
\* so a text without a sentence longer than max_length returns its
\* sentences of length >= min_length, in order.
C7_BoundaryInclusive ==
  /\ [][(pc = "sentence" /\ si <= Len(sentences)
           /\ Len(sentences[si]) <= max_length) =>
          /\ si' = si + 1
          /\ pc' = "sentence"
          /\ fragments' = IF Len(sentences[si]) >= min_length
                          THEN Append(fragments, sentences[si])
                          ELSE fragments]_vars
  /\ [](( /\ pc = "done" /\ ~row_rejected(original_text, min_length)
          /\ \A k \in 1..Len(sentences) : Len(sentences[k]) <= max_length) =>
        fragments = SelectSeq(sentences, LAMBDA s : Len(s) >= min_length))

C7_Witness ==
  /\ pc = "done" /\ ValidConfig
  /\ Len(sentences) = 2
  /\ Len(sentences[1]) = min_length - 1
  /\ Len(sentences[2]) = min_length /\ Len(sentences[2]) = max_length
  /\ fragments = <<sentences[2]>>

\* f is the concatenation of a run of consecutive phrases of ps.
IsRun(f, ps) ==
  \E i \in 1..Len(ps) : \E j \in i..Len(ps) : f = Flatten(SubSeq(ps, i, j))

\* C9: in the greedy merge, when appending the next phrase would exceed
\* max_length the accumulator is empty or at least min_length long; the
\* fragments emitted for a long sentence are runs of consecutive phrases
\* whose concatenation is the concatenation of all phrases.
C9_MergeKeepsEveryPhrase ==
  /\ (pc = "merge" /\ pi <= Len(parts)
        /\ Len(temp_part \o parts[pi]) > max_length) =>
       (temp_part = <<>> \/ Len(temp_part) >= min_length)
  /\ pc = "merge" =>
       Flatten(merged_parts) \o temp_part = Flatten(SubSeq(parts, 1, pi - 1))
  /\ pc = "flushed" =>
       /\ Flatten(merged_parts) = Flatten(parts)
       /\ \A k \in 1..Len(merged_parts) : IsRun(merged_parts[k], parts)

C9_Witness ==
  /\ pc = "flushed"
  /\ Len(parts) >= 2
  /\ Len(merged_parts) >= 2
  /\ Flatten(merged_parts) = Flatten(parts)

\* C10: a sentence longer than max_length that reaches phrase packing has
\* at least one phrase and at least one merged fragment, so the fallback
\* slicing never runs.
C10_FallbackUnreachable ==
  /\ pc = "merge" => parts # <<>>
  /\ pc = "flushed" =>
       /\ merged_parts # <<>>
       /\ ~needs_fallback(merged_parts, sentences[si], min_length)
  /\ last_window = {}

C10_Witness ==
  /\ pc = "flushed"
  /\ \A i \in 1..Len(sentences[si]) : sentences[si][i] \notin phrase_separators
  /\ Len(sentences[si]) > max_length
  /\ merged_parts = <<sentences[si]>>

----------------------------------------------------------------------------
(* main and process_in_parallel *)

\* The text cells of the sample records: empty, one sentence, two
\* sentences, and a cell that is not a str.
SampleTexts == {<<>>, <<"a", "u3002">>, <<"a", "u3002", "a", "u3002">>, NaN}

\* The frames read from the input file: each row has a text cell and an id
\* cell holding its position in the file.
Frames ==
  UNION {{[k \in 1..n |-> [id |-> k - 1, text |-> t[k]]] : t \in [1..n -> SampleTexts]}
           : n \in 0..MaxRecords}

\* line 119
total_chunks(n, size) == (n + size - 1) \div size

\* lines 123-125: df.iloc[start:end]
chunk_rows(frame, cid, size) ==
  LET start == cid * size
      end == IF start + size < Len(frame) THEN start + size ELSE Len(frame)
  IN slice(frame, start, end)

make_args_from_one(rows, minl, maxl) ==
  [i \in 1..Len(rows) |-> <<i, rows[i], minl, maxl>>]

\* line 91: enumerate(df.to_dict('records'))
make_args(rows, minl, maxl) ==
  [i \in 1..Len(rows) |-> <<i - 1, rows[i], minl, maxl>>]

Running(fs) == {i \in 1..Len(fs) : fs[i].state = "running"}
Pending(fs) == {i \in 1..Len(fs) : fs[i].state = "pending"}

\* line 100: pd.DataFrame(results).to_csv(out_file, index=False).  The file
\* holds a header line naming the columns of the frame, which are the keys
\* of the records, and one line per record; the cells of these records
\* (texts without surrounding whitespace, integers) are read back unchanged.
to_csv(rs) ==
  [columns |-> UNION {DOMAIN rs[k] : k \in 1..Len(rs)}, rows |-> rs]

\* line 131: pd.read_csv raises EmptyDataError on a file without columns.
readable(file) == file.columns # {}
read_csv(file) == file.rows

\* line 132: pd.concat(all_dfs, ignore_index=True)
RECURSIVE concat(_)
concat(dfs) == IF dfs = <<>> THEN <<>> ELSE Head(dfs) \o concat(Tail(dfs))

RowIdle ==
  /\ pc = "idle" /\ original_text = <<>>
  /\ sentences = <<>> /\ si = 1 /\ fragments = <<>> /\ last_window = {}
  /\ parts = <<>> /\ pi = 1 /\ temp_part = <<>> /\ merged_parts = <<>>
  /\ row_results = <<>>

Init ==
  /\ min_length \in 0..MaxPoolLen
  /\ max_length \in 0..MaxPoolLen
  /\ chunk_size \in 1..MaxChunk
  /\ num_workers \in 1..MaxWorkers
  /\ df \in Frames
  /\ mpc = "main"
  /\ chunk_id = 0 /\ args_list = <<>> /\ future = <<>> /\ nxt = 0
  /\ results = <<>> /\ completed = <<>> /\ output_files = <<>> /\ final_df = <<>>
  /\ RowIdle

\* lines 107-120: the parameters are set and the input file is read.
ReadInput ==
  /\ mpc = "main"
  /\ mpc' = "loop"
  /\ chunk_id' = 0
  /\ output_files' = <<>>
  /\ UNCHANGED <<min_length, max_length, rowvars, df, chunk_size, num_workers,
                 args_list, future, nxt, results, completed, final_df>>

\* lines 122-126, 90-95: the next chunk is cut and process_in_parallel
\* submits one task per record to the executor.
StartChunk ==
  /\ mpc = "loop"
  /\ chunk_id < total_chunks(Len(df), chunk_size)
  /\ args_list' = make_args(chunk_rows(df, chunk_id, chunk_size), min_length, max_length)
  /\ future' = [i \in 1..Len(args_list') |-> [state |-> "pending", result |-> <<>>]]
  /\ nxt' = 0
  /\ results' = <<>>
  /\ completed' = <<>>
  /\ mpc' = "pool"
  /\ UNCHANGED <<min_length, max_length, rowvars, df, chunk_size, num_workers,
                 chunk_id, output_files, final_df>>

\* A free worker process takes the oldest queued task.
TaskStart(i) ==
  /\ mpc = "pool"
  /\ Pending(future) # {} /\ i = SetMin(Pending(future))
  /\ Cardinality(Running(future)) < num_workers
  /\ future' = [future EXCEPT ![i].state = "running"]
  /\ UNCHANGED <<min_length, max_length, rowvars, mpc, df, chunk_size,
                 num_workers, chunk_id, args_list, nxt, results, completed,
                 output_files, final_df>>

\* The worker returns process_single_row(args).
TaskFinish(i) ==
  /\ mpc = "pool"
  /\ i \in Running(future)
  /\ ~row_raises(args_list[i])
  /\ future' = [future EXCEPT ![i] = [state |-> "done",
                                      result |-> process_single_row(args_list[i])]]
  /\ completed' = Append(completed, i)
  /\ UNCHANGED <<min_length, max_length, rowvars, mpc, df, chunk_size,
                 num_workers, chunk_id, args_list, nxt, results, output_files,
                 final_df>>

\* The task ends with an exception instead (it cannot be transferred, or
\* the worker fails while running it); the future holds the exception.
TaskRaise(i) ==
  /\ mpc = "pool"
  /\ i \in Running(future)
  /\ future' = [future EXCEPT ![i].state = "raised"]
  /\ completed' = Append(completed, i)
  /\ UNCHANGED <<min_length, max_length, rowvars, mpc, df, chunk_size,
                 num_workers, chunk_id, args_list, nxt, results, output_files,
                 final_df>>

\* lines 95-97: executor.map yields the results in the order of args_list.
Collect ==
  /\ mpc = "pool"
  /\ nxt < Len(future)
  /\ future[nxt + 1].state = "done"
  /\ results' = IF future[nxt + 1].result # <<>>
                THEN results \o future[nxt + 1].result
                ELSE results
  /\ nxt' = nxt + 1
  /\ UNCHANGED <<min_length, max_length, rowvars, mpc, df, chunk_size,
                 num_workers, chunk_id, args_list, future, completed,
                 output_files, final_df>>

\* line 95: the iterator re-raises the exception of the next future; nothing
\* in process_in_parallel or main catches it.
CollectRaise ==
  /\ mpc = "pool"
  /\ nxt < Len(future)
  /\ future[nxt + 1].state = "raised"
  /\ mpc' = "raised"
  /\ UNCHANGED <<min_length, max_length, rowvars, df, chunk_size, num_workers,
                 chunk_id, args_list, future, nxt, results, completed,
                 output_files, final_df>>

\* lines 99-102, 127: the chunk's records are written and the loop goes on.
WriteChunk ==
  /\ mpc = "pool"
  /\ nxt = Len(future)
  /\ output_files' = Append(output_files, to_csv(results))
  /\ chunk_id' = chunk_id + 1
  /\ mpc' = "loop"
  /\ UNCHANGED <<min_length, max_length, rowvars, df, chunk_size, num_workers,
                 args_list, future, nxt, results, completed, final_df>>

\* line 131: a chunk file without columns cannot be read back.
ReadError ==
  /\ mpc = "loop"
  /\ chunk_id = total_chunks(Len(df), chunk_size)
  /\ \E k \in 1..Len(output_files) : ~readable(output_files[k])
  /\ mpc' = "read_error"
  /\ UNCHANGED <<min_length, max_length, rowvars, df, chunk_size, num_workers,
                 chunk_id, args_list, future, nxt, results, completed,
                 output_files, final_df>>

\* line 132: pd.concat of an empty list raises ValueError.
ConcatError ==
  /\ mpc = "loop"
  /\ chunk_id = total_chunks(Len(df), chunk_size)
  /\ output_files = <<>>
  /\ mpc' = "concat_error"
  /\ UNCHANGED <<min_length, max_length, rowvars, df, chunk_size, num_workers,
                 chunk_id, args_list, future, nxt, results, completed,
                 output_files, final_df>>

\* lines 131-139: the chunk files are read back and concatenated.
Merge ==
  /\ mpc = "loop"
  /\ chunk_id = total_chunks(Len(df), chunk_size)
  /\ output_files # <<>>
  /\ \A k \in 1..Len(output_files) : readable(output_files[k])
  /\ final_df' = concat([k \in 1..Len(output_files) |-> read_csv(output_files[k])])
  /\ mpc' = "done"
  /\ UNCHANGED <<min_length, max_length, rowvars, df, chunk_size, num_workers,
                 chunk_id, args_list, future, nxt, results, completed,
                 output_files>>

Next ==
  \/ ReadInput \/ StartChunk
  \/ \E i \in 1..MaxChunk : TaskStart(i) \/ TaskFinish(i) \/ TaskRaise(i)
  \/ Collect \/ CollectRaise \/ WriteChunk
  \/ ReadError \/ ConcatError \/ Merge

Spec == Init /\ [][Next]_vars

----------------------------------------------------------------------------
(* Properties of process_in_parallel and main (Spec) *)

\* The rows of the chunk being processed, as cut from the frame.
BatchRows == chunk_rows(df, chunk_id, chunk_size)

\* The records of the batch's rows 1..n, row by row, each row indexed by
\* its position in the batch counted from 0.
RECURSIVE RecordsUpTo(_, _)
RecordsUpTo(rows, n) ==
  IF n = 0 THEN <<>>
  ELSE RecordsUpTo(rows, n - 1)
       \o process_single_row(<<n - 1, rows[n], min_length, max_length>>)

\* C2: whatever the order in which the tasks end, the records collected
\* from a batch are those of its rows in row order: original_index is the
\* position of the source row in the batch, the groups of the rows follow
\* each other in increasing original_index without interleaving, and
\* fragment_index counts 0, 1, 2, ... inside each group.
C2_BatchOrderByIndex ==
  mpc = "pool" =>
    /\ results = RecordsUpTo(BatchRows, nxt)
    /\ \A k \in 1..Len(results) :
         /\ results[k].original_index \in 0..(Len(BatchRows) - 1)
         /\ results[k].id = BatchRows[results[k].original_index + 1].id
         /\ results[k].fragment_index =
              Cardinality({j \in 1..(k - 1) :
                             results[j].original_index = results[k].original_index})
    /\ \A j, k \in 1..Len(results) :
         j < k => results[j].original_index <= results[k].original_index

C2_Witness ==
  /\ mpc = "pool"
  /\ Len(args_list) = 2 /\ nxt = 2
  /\ completed = <<2, 1>>
  /\ Len(results) = 3
  /\ results[1].original_index = 0 /\ results[1].fragment_index = 0
  /\ results[2].original_index = 1 /\ results[2].fragment_index = 0
  /\ results[3].original_index = 1 /\ results[3].fragment_index = 1

\* The records of rows 1..n when the rows whose task raised give none.
RECURSIVE IsolatedUpTo(_, _)
IsolatedUpTo(rows, n) ==
  IF n = 0 THEN <<>>
  ELSE IsolatedUpTo(rows, n - 1)
       \o (IF future[n].state = "raised" THEN <<>>
           ELSE process_single_row(<<n - 1, rows[n], min_length, max_length>>))

\* C3: a task that ends with an exception does not abort the batch; its row
\* gives no record and the records of the other rows are still collected,
\* in order.
C3_FailureIsolated ==
  ValidConfig =>
    /\ mpc # "raised"
    /\ (mpc = "pool" /\ nxt = Len(future)) => results = IsolatedUpTo(BatchRows, nxt)

ConfigInvalid == min_length > max_length \/ min_length < 1 \/ max_length < 1

\* C4: under a configuration with min_length > max_length or a
\* non-positive size the run stops before the records are read: no chunk is
\* started, no task is submitted and no fragment record is produced.
C4_InvalidConfigFailsFast ==
  ConfigInvalid =>
    /\ mpc = "main"
    /\ args_list = <<>> /\ future = <<>>
    /\ results = <<>> /\ output_files = <<>> /\ final_df = <<>>

\* The records of the frame's rows 1..n when row g (counted from 0) is row
\* g % chunk_size of batch g \div chunk_size.
RECURSIVE FinalUpTo(_)
FinalUpTo(n) ==
  IF n = 0 THEN <<>>
  ELSE FinalUpTo(n - 1)
       \o process_single_row(<<(n - 1) % chunk_size, df[n], min_length, max_length>>)

\* C8: the records are cut into consecutive batches of at most chunk_size
\* rows, a batch's tasks exist only after every earlier batch has been
\* written, and the run completes with the concatenation of the batches'
\* records in batch order, original_index counted from 0 in each batch,
\* also when a batch gives no record.
C8_SequentialBatches ==
  ValidConfig =>
    /\ mpc \notin {"read_error", "concat_error"}
    /\ mpc = "pool" =>
         /\ Len(output_files) = chunk_id
         /\ Len(args_list) <= chunk_size
         /\ (chunk_id + 1 < total_chunks(Len(df), chunk_size)) =>
              Len(args_list) = chunk_size
         /\ \A i \in 1..Len(args_list) :
              args_list[i][2] = df[chunk_id * chunk_size + i]
    /\ \A k \in 1..Len(output_files) :
         output_files[k].rows =
           SubSeq(FinalUpTo(IF k * chunk_size < Len(df) THEN k * chunk_size ELSE Len(df)),
                  Len(FinalUpTo((k - 1) * chunk_size)) + 1,
                  Len(FinalUpTo(IF k * chunk_size < Len(df) THEN k * chunk_size ELSE Len(df))))
    /\ mpc = "done" => final_df = FinalUpTo(Len(df))

====
